---- MODULE Spec2Model ----
(***************************************************************************)
(* Model of examples/wasm-metamask/src/provider.rs: the EIP1193 handle     *)
(* (construction from the window's `ethereum` global) and its              *)
(* JsonRpcClient::request, together with the error conversions.            *)
(*                                                                         *)
(* Host (JavaScript) values are records with a tag field t; Rust values    *)
(* are records with other tags, so a conversion between the two is never   *)
(* the identity.                                                           *)
(***************************************************************************)
EXTENDS Integers, Sequences, FiniteSets, TLC

\* number of request calls issued on the handle
NCalls == 2
Calls == 1..NCalls

----------------------------------------------------------------------------
\* Host values (JsValue)

None == [t |-> "none"]
Undefined == [t |-> "undefined"]
JsNull == [t |-> "null"]
JsNumber(n) == [t |-> "number", n |-> n]
JsString(s) == [t |-> "string", s |-> s]
JsArray(items) == [t |-> "array", items |-> items]
JsFunction(name) == [t |-> "function", name |-> name]
JsTypeError(what) == [t |-> "TypeError", what |-> what]
\* the structured error object a wallet rejects with
JsRpcError(code, message) == [t |-> "object", code |-> code, message |-> message]
\* a provider object and the members it defines
JsProvider(members) == [t |-> "provider", members |-> members]
\* the plain object serde_wasm_bindgen builds for a struct: its own properties
JsObject(props) == [t |-> "object", props |-> props]

Members == {"request", "on", "removeListener"}

\* what the page may have bound to window.ethereum
HostGlobals ==
    {Undefined, JsNull, JsNumber(5)} \cup {JsProvider(m) : m \in SUBSET Members}

----------------------------------------------------------------------------
\* Rust values

Ok(v) == [tag |-> "Ok", value |-> v]
Err(e) == [tag |-> "Err", err |-> e]
Some(v) == [opt |-> "Some", value |-> v]
NoneOpt == [opt |-> "None"]

\* String values: a literal, or format!("{:?}", js)
Lit(s) == [lit |-> s]
DebugFmt(js) == [dbg |-> "JsValue", of |-> js]

\* enum EIP1193Error
RPC(e) == [variant |-> "RPC", rpc |-> e]
Deserialize(cause) == [variant |-> "Deserialize", cause |-> cause]
JsValueError(msg) == [variant |-> "JsValueError", msg |-> msg]

\* ethers::providers::ProviderError, the variants the conversion produces
UnsupportedRPC == [variant |-> "UnsupportedRPC"]
SerdeJson(cause) == [variant |-> "SerdeJson", cause |-> cause]
CustomError(msg) == [variant |-> "CustomError", msg |-> msg]

\* JsonRpcError {code, message}
JsonRpcError(code, message) == [code |-> code, message |-> message]

----------------------------------------------------------------------------
\* Conversions

\* From<JsValue> that recognises a structured {code, message} object
From_JsValue_structured(js) ==
    IF js.t = "object" /\ "code" \in DOMAIN js
    THEN RPC(JsonRpcError(js.code, js.message))
    ELSE JsValueError(DebugFmt(js))

\* impl From<JsValue> for EIP1193Error
From_JsValue(js) == JsValueError(DebugFmt(js))

\* the conversion with every error rendered into CustomError
From_EIP1193Error_custom(err) ==
    CASE err.variant = "RPC" -> CustomError(Lit("rcp error"))
      [] err.variant = "Deserialize" -> CustomError(Lit("deserialize error"))
      [] err.variant = "JsValueError" -> CustomError(err.msg)

\* impl From<EIP1193Error> for EthersProviderError
From_EIP1193Error(err) ==
    CASE err.variant = "RPC" -> UnsupportedRPC
      [] err.variant = "Deserialize" -> SerdeJson(err.cause)
      [] err.variant = "JsValueError" -> CustomError(err.msg)

\* serde_json::Error::custom(msg)
Custom(msg) == [custom |-> msg]

\* fn to_deserialize_error
to_deserialize_error(err) == Deserialize(Custom(err))

----------------------------------------------------------------------------
\* Host binding layer, as new uses it

\* Window::get(name) -> Option<Object>: undefined and null come back as None
WindowGet(global) ==
    IF global.t \in {"undefined", "null"} THEN NoneOpt ELSE Some(global)

\* Reflect::get(target, key): Reflect.get throws a TypeError on a non-object
\* target and yields undefined for a member the object does not define
ReflectGet(target, key) ==
    IF target.t = "provider"
    THEN Ok(IF key \in target.members THEN JsFunction(key) ELSE Undefined)
    ELSE Err(JsTypeError("Reflect.get called on non-object"))

\* struct EIP1193; the fields hold the looked-up values cast unchecked (.into())
EIP1193(this, request, on, remove_listener) ==
    [this |-> this, request |-> request, on |-> on,
     remove_listener |-> remove_listener]

\* EIP1193::new, the struct expression: the three lookups in field order, each
\* with ?, and the members looked up on the way
capture(p) ==
    LET r == ReflectGet(p, "request")
        o == ReflectGet(p, "on")
        l == ReflectGet(p, "removeListener")
    IN IF r.tag = "Err"
       THEN [result |-> Err(From_JsValue(r.err)), lookups |-> <<"request">>]
       ELSE IF o.tag = "Err"
       THEN [result |-> Err(From_JsValue(o.err)), lookups |-> <<"request", "on">>]
       ELSE IF l.tag = "Err"
       THEN [result |-> Err(From_JsValue(l.err)),
             lookups |-> <<"request", "on", "removeListener">>]
       ELSE [result |-> Ok(EIP1193(p, r.value, o.value, l.value)),
             lookups |-> <<"request", "on", "removeListener">>]

\* new without the ok_or: the lookups go ahead on whatever the global holds
new_unchecked(global) == capture(global)

\* EIP1193::new: the result and the members looked up on the way, in order
new(global) ==
    LET provider == WindowGet(global) IN
    IF provider.opt = "None"
    THEN [result |-> Err(JsValueError(Lit("missing provider"))), lookups |-> <<>>]
    ELSE capture(provider.value)

----------------------------------------------------------------------------
\* The request envelope and its serialization

\* parameter values a caller passes
Unit == [ty |-> "unit"]
ParamSeq(items) == [ty |-> "seq", items |-> items]
Unserializable == [ty |-> "unserializable"]

\* struct RequestMethod
RequestMethod(method, params) == [method |-> method, params |-> params]

\* serde_wasm_bindgen's Serializer on a parameter value: () becomes undefined,
\* a sequence an array; a value whose Serialize impl fails gives the error
SerializeParams(p) ==
    CASE p.ty = "unit" -> Ok(Undefined)
      [] p.ty = "seq" -> Ok(JsArray(p.items))
      [] p.ty = "unserializable" -> Err(Lit("value cannot be serialized"))

\* Option<T>: None becomes undefined, Some(v) is v serialized
SerializeOption(o) ==
    IF o.opt = "None" THEN Ok(Undefined) ELSE SerializeParams(o.value)

\* serde_wasm_bindgen::to_value(&arg) through #[derive(Serialize)]: every field
\* of the struct is serialized and set as a property of a fresh object (the
\* struct carries no skip_serializing_if)
to_value(arg) ==
    LET p == SerializeOption(arg.params) IN
    IF p.tag = "Err" THEN p
    ELSE Ok(JsObject([method |-> JsString(arg.method), params |-> p.value]))

----------------------------------------------------------------------------
\* Deserialization of the resolved value

ResultTypes == {"VecAddress", "String"}

\* hex strings that parse as an address, and the address each denotes
HexAddress == ("0xabc" :> 2748) @@ ("0xdef" :> 3567)

\* serde_wasm_bindgen::from_value::<R>
from_value(R, v) ==
    CASE R = "VecAddress" ->
           IF v.t = "array"
           THEN IF \A k \in DOMAIN v.items : v.items[k] \in DOMAIN HexAddress
                THEN Ok([vec |-> [k \in DOMAIN v.items |->
                                    [addr |-> HexAddress[v.items[k]]]]])
                ELSE Err([invalid_value |-> "string", expected |-> "an address"])
           ELSE Err([invalid_type |-> v.t, expected |-> "a sequence"])
      [] R = "String" ->
           IF v.t = "string"
           THEN Ok([string |-> v.s])
           ELSE Err([invalid_type |-> v.t, expected |-> "a string"])

\* the zero value of a result type
DefaultValue(R) ==
    IF R = "VecAddress" THEN [vec |-> <<>>] ELSE [string |-> ""]

\* parse_js falling back to the default on a value that does not deserialize
parse_js_or_default(R, data) ==
    LET r == from_value(R, data) IN
    IF r.tag = "Err" THEN Ok(DefaultValue(R)) ELSE r

\* fn parse_js
parse_js(R, data) ==
    LET r == from_value(R, data) IN
    IF r.tag = "Err"
    THEN Err(Deserialize(Custom([prefix |-> "failed to parse js value", of |-> r.err])))
    ELSE r

----------------------------------------------------------------------------
\* State

VARIABLES
    ethereum,   \* the value bound to window.ethereum
    newResult,  \* what EIP1193::new returned, once it ran
    lookups,    \* the members new looked up with Reflect::get, in order
    pc,         \* per call: "idle", "awaiting" (suspended at .await), "done"
    req,        \* per call: the request (method, params, expected type R)
    sent,       \* per call: the envelope handed to the host's request
    promise,    \* per call: what call1 gave: the host promise, or what it threw
    outcome,    \* per call: what request returned
    trace,      \* per call: its console log lines and host invocations, in order
    converted   \* the last EIP1193Error turned into a ProviderError

vars == <<ethereum, newResult, lookups, pc, req, sent, promise, outcome, trace,
          converted>>

Unset == [tag |-> "none"]

Pending == [state |-> "pending"]
Resolved(v) == [state |-> "resolved", value |-> v]
Rejected(v) == [state |-> "rejected", value |-> v]
Threw(v) == [state |-> "threw", value |-> v]
NoPromise == [state |-> "none"]

\* requests a caller issues
Requests ==
    { [method |-> "eth_requestAccounts", params |-> Unit, R |-> "VecAddress"],
      [method |-> "web3_sha3", params |-> ParamSeq(<<"0x68">>), R |-> "String"],
      [method |-> "eth_accounts", params |-> Unserializable, R |-> "VecAddress"] }

\* values the host resolves a request with
ResolveValues ==
    { JsArray(<<"0xabc", "0xdef">>), JsNumber(1), JsString("0x47173285") }

\* values the host rejects a request with
RejectValues ==
    { JsRpcError(-32601, "Method not found"), JsString("timeout") }

\* values the host's request may throw when invoked
ThrowValues == { JsTypeError("invalid request") }

Settlements ==
    {Resolved(v) : v \in ResolveValues} \cup {Rejected(v) : v \in RejectValues}

\* errors handed to the conversion into ProviderError
ErrorSamples ==
    { RPC(JsonRpcError(-32601, "Method not found")),
      Deserialize(Custom(Lit("invalid type"))),
      JsValueError(Lit("missing provider")),
      JsValueError(DebugFmt(JsString("timeout"))) }

Init ==
    /\ ethereum \in HostGlobals
    /\ newResult = Unset
    /\ lookups = <<>>
    /\ pc = [i \in Calls |-> "idle"]
    /\ req = [i \in Calls |-> None]
    /\ sent = [i \in Calls |-> None]
    /\ promise = [i \in Calls |-> NoPromise]
    /\ outcome = [i \in Calls |-> Unset]
    /\ trace = [i \in Calls |-> <<>>]
    /\ converted = Unset

\* the handle the calls go through
handle == newResult.value

\* lib.rs: EIP1193::new(&window), once
New ==
    /\ newResult = Unset
    /\ newResult' = new(ethereum).result
    /\ lookups' = new(ethereum).lookups
    /\ UNCHANGED <<ethereum, pc, req, sent, promise, outcome, trace, converted>>

\* request up to its .await: log, build and serialize the envelope, invoke the
\* captured callable.  thrown is what the host's request throws on this
\* invocation (None: it returns its promise).
request_call(i, r, thrown) ==
    /\ newResult.tag = "Ok"
    /\ pc[i] = "idle"
    /\ LET arg == RequestMethod(r.method, Some(r.params))
           ser == to_value(arg)
           logged == Append(trace[i], "log")
       IN
       /\ req' = [req EXCEPT ![i] = r]
       /\ IF ser.tag = "Err"
          THEN /\ outcome' = [outcome EXCEPT ![i] = Err(to_deserialize_error(ser.err))]
               /\ pc' = [pc EXCEPT ![i] = "done"]
               /\ trace' = [trace EXCEPT ![i] = logged]
               /\ UNCHANGED <<sent, promise>>
          ELSE IF handle.request.t # "function"
          THEN \* call1 on a value that is not callable throws a TypeError
               /\ outcome' = [outcome EXCEPT ![i] =
                                Err(From_JsValue(JsTypeError("not a function")))]
               /\ pc' = [pc EXCEPT ![i] = "done"]
               /\ trace' = [trace EXCEPT ![i] = logged]
               /\ promise' = [promise EXCEPT ![i] =
                                Threw(JsTypeError("not a function"))]
               /\ UNCHANGED sent
          ELSE IF thrown # None
          THEN /\ outcome' = [outcome EXCEPT ![i] = Err(From_JsValue(thrown))]
               /\ pc' = [pc EXCEPT ![i] = "done"]
               /\ trace' = [trace EXCEPT ![i] = Append(logged, "call")]
               /\ sent' = [sent EXCEPT ![i] = ser.value]
               /\ promise' = [promise EXCEPT ![i] = Threw(thrown)]
          ELSE /\ pc' = [pc EXCEPT ![i] = "awaiting"]
               /\ promise' = [promise EXCEPT ![i] = Pending]
               /\ trace' = [trace EXCEPT ![i] = Append(logged, "call")]
               /\ sent' = [sent EXCEPT ![i] = ser.value]
               /\ UNCHANGED outcome
    /\ UNCHANGED <<ethereum, newResult, lookups, converted>>

\* the host settles the promise of an outstanding call
host_settle(i, s) ==
    /\ pc[i] = "awaiting"
    /\ promise[i] = Pending
    /\ promise' = [promise EXCEPT ![i] = s]
    /\ UNCHANGED <<ethereum, newResult, lookups, pc, req, sent, outcome, trace,
                   converted>>

\* request_await that logs a second line on completion
request_await_relog(i) ==
    /\ pc[i] = "awaiting"
    /\ promise[i].state \in {"resolved", "rejected"}
    /\ outcome' = [outcome EXCEPT ![i] =
                     IF promise[i].state = "rejected"
                     THEN Err(From_JsValue(promise[i].value))
                     ELSE parse_js(req[i].R, promise[i].value)]
    /\ pc' = [pc EXCEPT ![i] = "done"]
    /\ trace' = [trace EXCEPT ![i] = Append(trace[i], "log")]
    /\ UNCHANGED <<ethereum, newResult, lookups, req, sent, promise, converted>>

\* request_await that invokes the host again after a rejection
request_await_retry(i) ==
    /\ pc[i] = "awaiting"
    /\ promise[i].state \in {"resolved", "rejected"}
    /\ IF promise[i].state = "rejected"
       THEN /\ promise' = [promise EXCEPT ![i] = Pending]
            /\ trace' = [trace EXCEPT ![i] = Append(trace[i], "call")]
            /\ UNCHANGED <<outcome, pc>>
       ELSE /\ outcome' = [outcome EXCEPT ![i] = parse_js(req[i].R, promise[i].value)]
            /\ pc' = [pc EXCEPT ![i] = "done"]
            /\ UNCHANGED <<promise, trace>>
    /\ UNCHANGED <<ethereum, newResult, lookups, req, sent, converted>>

\* request_await behind a queue: a call completes only after every earlier one
request_await_fifo(i) ==
    /\ pc[i] = "awaiting"
    /\ \A j \in Calls : j < i => pc[j] # "awaiting"
    /\ promise[i].state \in {"resolved", "rejected"}
    /\ outcome' = [outcome EXCEPT ![i] =
                     IF promise[i].state = "rejected"
                     THEN Err(From_JsValue(promise[i].value))
                     ELSE parse_js(req[i].R, promise[i].value)]
    /\ pc' = [pc EXCEPT ![i] = "done"]
    /\ UNCHANGED <<ethereum, newResult, lookups, req, sent, promise, trace,
                   converted>>

\* request from its .await on: the task wakes once its promise has settled
request_await(i) ==
    /\ pc[i] = "awaiting"
    /\ promise[i].state \in {"resolved", "rejected"}
    /\ outcome' = [outcome EXCEPT ![i] =
                     IF promise[i].state = "rejected"
                     THEN Err(From_JsValue(promise[i].value))
                     ELSE parse_js(req[i].R, promise[i].value)]
    /\ pc' = [pc EXCEPT ![i] = "done"]
    /\ UNCHANGED <<ethereum, newResult, lookups, req, sent, promise, trace,
                   converted>>

\* a consumer turns an EIP1193Error into the framework's ProviderError
convert(err) ==
    /\ converted' = [tag |-> "converted", from |-> err, to |-> From_EIP1193Error(err)]
    /\ UNCHANGED <<ethereum, newResult, lookups, pc, req, sent, promise, outcome,
                   trace>>

Next ==
    \/ New
    \/ \E i \in Calls, r \in Requests, thrown \in {None} \cup ThrowValues :
          request_call(i, r, thrown)
    \/ \E i \in Calls, s \in Settlements : host_settle(i, s)
    \/ \E i \in Calls : request_await(i)
    \/ \E err \in ErrorSamples : convert(err)

Spec == Init /\ [][Next]_vars

----------------------------------------------------------------------------
\* Properties

Done(i) == pc[i] = "done"

\* the host resolved call i with a value that deserializes as the expected type
ResolvedOk(i) ==
    /\ promise[i].state = "resolved"
    /\ from_value(req[i].R, promise[i].value).tag = "Ok"

\* the host resolved call i with a value that does not deserialize
ResolvedBad(i) ==
    /\ promise[i].state = "resolved"
    /\ from_value(req[i].R, promise[i].value).tag = "Err"

\* the host rejected call i with a structured {code, message} object
RejectedStructured(i) ==
    /\ promise[i].state = "rejected"
    /\ promise[i].value.t = "object"
    /\ "code" \in DOMAIN promise[i].value

\* how often the host's request was invoked for call i
HostCalls(i) == Cardinality({k \in DOMAIN trace[i] : trace[i][k] = "call"})

\* C1: a call the host resolves with a value that deserializes as the expected
\* type returns Ok of that value, typed; it logged exactly one line, and that
\* line precedes the host invocation.
C1_ResolvedValueReturned ==
    \A i \in Calls :
        (Done(i) /\ ResolvedOk(i)) =>
            /\ outcome[i].tag = "Ok"
            /\ outcome[i] = from_value(req[i].R, promise[i].value)
            /\ (promise[i].value = JsArray(<<"0xabc", "0xdef">>) =>
                  outcome[i].value = [vec |-> <<[addr |-> 2748], [addr |-> 3567]>>])
            /\ trace[i] = <<"log", "call">>

C1_Witness ==
    \E i \in Calls :
        /\ Done(i)
        /\ req[i].method = "eth_requestAccounts"
        /\ promise[i] = Resolved(JsArray(<<"0xabc", "0xdef">>))
        /\ outcome[i] = Ok([vec |-> <<[addr |-> 2748], [addr |-> 3567]>>])
        /\ trace[i] = <<"log", "call">>

\* C2: a call the host rejects with a structured RPC error object
\* {code, message} fails with EIP1193Error::RPC carrying that code and message.
C2_StructuredRejectionIsRPC ==
    \A i \in Calls :
        (Done(i) /\ RejectedStructured(i)) =>
            outcome[i] = Err(RPC(JsonRpcError(promise[i].value.code,
                                              promise[i].value.message)))

\* C3: with no `ethereum` global, new fails with "missing provider", produces
\* no handle (so no call is ever issued) and looks up none of the members.
C3_MissingProvider ==
    (newResult # Unset /\ ethereum.t \in {"undefined", "null"}) =>
        /\ newResult = Err(JsValueError(Lit("missing provider")))
        /\ lookups = <<>>
        /\ \A i \in Calls : pc[i] = "idle" /\ trace[i] = <<>>

C3_Witness ==
    /\ ethereum = Undefined
    /\ newResult.tag = "Err"
    /\ lookups = <<>>

\* C4: a call the host resolves with a value that does not deserialize as the
\* expected type fails with EIP1193Error::Deserialize, never Ok.
C4_BadValueIsDeserializeError ==
    \A i \in Calls :
        (Done(i) /\ ResolvedBad(i)) =>
            /\ outcome[i].tag = "Err"
            /\ outcome[i].err.variant = "Deserialize"

C4_Witness ==
    \E i \in Calls :
        /\ Done(i)
        /\ req[i].R = "VecAddress"
        /\ promise[i] = Resolved(JsNumber(1))
        /\ outcome[i].tag = "Err"
        /\ outcome[i].err.variant = "Deserialize"

\* C5: the conversion into the provider error maps RPC to UnsupportedRPC,
\* Deserialize to SerdeJson with the same cause, JsValueError to CustomError
\* with the same message, and nothing else.
C5_ThreeWayMapping ==
    converted # Unset =>
        CASE converted.from.variant = "RPC" -> converted.to = UnsupportedRPC
          [] converted.from.variant = "Deserialize" ->
               converted.to = SerdeJson(converted.from.cause)
          [] converted.from.variant = "JsValueError" ->
               converted.to = CustomError(converted.from.msg)

C5_Witness ==
    /\ converted # Unset
    /\ converted.from = Deserialize(Custom(Lit("invalid type")))
    /\ converted.to.variant = "SerdeJson"

\* C6: a call whose host promise is rejected, or whose invocation of the
\* captured callable throws, fails with JsValueError carrying the debug
\* rendering of the rejected or thrown value.
C6_RejectionIsJsValueError ==
    \A i \in Calls :
        (Done(i) /\ promise[i].state \in {"rejected", "threw"}) =>
            outcome[i] = Err(JsValueError(DebugFmt(promise[i].value)))

C6_Witness ==
    /\ \E i \in Calls :
          /\ Done(i)
          /\ promise[i] = Rejected(JsString("timeout"))
          /\ outcome[i] = Err(JsValueError(DebugFmt(JsString("timeout"))))
    /\ \E i \in Calls :
          /\ Done(i)
          /\ promise[i].state = "threw"
          /\ outcome[i].err.variant = "JsValueError"

\* C7: a call invokes the host's request at most once, and a completed call
\* has exactly one outcome: Ok, or Err of one of the three variants; a call
\* that has not completed has none.
C7_SingleCallSingleOutcome ==
    \A i \in Calls :
        /\ HostCalls(i) <= 1
        /\ Done(i) =>
              /\ outcome[i].tag \in {"Ok", "Err"}
              /\ outcome[i].tag = "Err" =>
                    outcome[i].err.variant \in {"RPC", "Deserialize", "JsValueError"}
        /\ ~Done(i) => outcome[i] = Unset
        /\ (Done(i) /\ promise[i].state \in {"rejected", "threw"}) =>
              outcome[i].tag = "Err"

C7_Witness ==
    \E i \in Calls :
        /\ Done(i)
        /\ promise[i].state = "rejected"
        /\ HostCalls(i) = 1
        /\ outcome[i].tag = "Err"

\* C8: the envelope request hands to the host for a call without parameters
\* (params = ()) carries no `params` property.
C8_UnitParamsOmitted ==
    \A i \in Calls :
        (sent[i] # None /\ req[i].params = Unit) =>
            "params" \notin DOMAIN sent[i].props

\* C9: when the `ethereum` object lacks one of request, on, removeListener,
\* new fails; every handle new returns holds three callables.
C9_MissingMemberFails ==
    /\ (newResult # Unset /\ ethereum.t = "provider" /\ ethereum.members # Members) =>
          newResult.tag = "Err"
    /\ newResult.tag = "Ok" =>
          /\ newResult.value.request.t = "function"
          /\ newResult.value.on.t = "function"
          /\ newResult.value.remove_listener.t = "function"

\* C10, state part: an outstanding call is never held up by another one: the
\* host can settle it, and once settled it can complete, whatever the others do.
C10_NotBlocked ==
    \A i \in Calls :
        pc[i] = "awaiting" =>
            IF promise[i] = Pending
            THEN \A s \in Settlements : ENABLED host_settle(i, s)
            ELSE ENABLED request_await(i)

\* C10, step part: the handle never changes once captured; a call leaves
\* .await only by its own promise having settled, with the outcome that
\* settlement determines; a call whose promise is pending stays suspended;
\* and a step of one call changes nothing of another.
C10_Step ==
    /\ newResult.tag = "Ok" => newResult' = newResult
    /\ \A i \in Calls :
          /\ (pc[i] = "awaiting" /\ pc'[i] # "awaiting") =>
                /\ promise[i].state \in {"resolved", "rejected"}
                /\ promise'[i] = promise[i]
                /\ pc'[i] = "done"
                /\ outcome'[i] =
                      IF promise[i].state = "rejected"
                      THEN Err(JsValueError(DebugFmt(promise[i].value)))
                      ELSE parse_js(req[i].R, promise[i].value)
          /\ (pc[i] = "awaiting" /\ promise[i] = Pending) =>
                pc'[i] = "awaiting" /\ outcome'[i] = Unset
          /\ (pc'[i] # pc[i] \/ promise'[i] # promise[i]) =>
                \A j \in Calls \ {i} :
                    /\ pc'[j] = pc[j]
                    /\ promise'[j] = promise[j]
                    /\ outcome'[j] = outcome[j]
                    /\ sent'[j] = sent[j]

\* C10: outstanding calls on one handle are independent and unordered; a call
\* that never settles stays suspended without holding up any other call, and
\* no call changes the handle.
C10_IndependentCalls == [](C10_NotBlocked) /\ [][C10_Step]_vars

\* call 1 was issued and never settled, and call 2 completed meanwhile
C10_Witness ==
    /\ pc[1] = "awaiting"
    /\ promise[1] = Pending
    /\ pc[2] = "done"
    /\ promise[2].state = "resolved"
    /\ outcome[2].tag = "Ok"

====
